---- MODULE Spec2Model ----
(***************************************************************************)
(* A model of the Collection compiler of src/src/collection.ts: one        *)
(* Collection object, the registry's relation log it writes to, and one    *)
(* action per public method.  JavaScript objects are functions from key    *)
(* strings to values: a key that was never assigned is not in the DOMAIN.  *)
(* An optional argument is a sequence: <<>> when the caller omits it       *)
(* (undefined), <<v>> when the caller passes v.                            *)
(***************************************************************************)
EXTENDS Integers, Sequences, FiniteSets, TLC

VARIABLES
    name,        \* Collection.name
    schema,      \* Collection.schema
    meta,        \* Collection.meta
    fields,      \* Collection.fields, a sequence of Field objects
    relations,   \* the relation log of the builder this collection writes to
    result,      \* <<d>> when the last call was render() and returned d, else <<>>
    declared,    \* history: the field-declaring calls made, in call order
    translated,  \* history: the translation() calls made, in call order
    archived,    \* history: <<the arguments of the last archive() call>>, else <<>>
    ncalls       \* history: the number of mutating calls made

vars == <<name, schema, meta, fields, relations, result, declared, translated, archived, ncalls>>

\* ------------------------------------------------------------------ bounds

\* The number of mutating calls one behaviour makes on the collection.
MaxCalls == 2

\* ------------------------------------------------------------- JS values

Null == "null"            \* the JavaScript value null
Undefined == "undefined"  \* the JavaScript value undefined, when stored

EmptyObj == [k \in {} |-> TRUE]          \* {}
Has(o, k) == k \in DOMAIN o              \* k in o
Set(o, k, v) == (k :> v) @@ o            \* o[k] = v

Omitted == <<>>
Given(v) == <<v>>
\* A parameter with a default value: the default replaces undefined only.
Default(arg, d) == IF arg = Omitted THEN d ELSE arg[1]
\* An optional parameter without a default: undefined when omitted.
Optional(arg) == Default(arg, Undefined)
\* JavaScript truthiness of a string-or-null argument such as on_create.
Truthy(v) == v # Null /\ v # Undefined /\ v # ""

\* ------------------------------------------------ defaults of the source

DefaultMaxLength == 255
DefaultIntegerPrecision == 32
DefaultBigIntegerPrecision == 64
DefaultPrecision == 10
DefaultScale == 5
DefaultArchiveValue == "archived"
DefaultUnarchiveValue == "draft"
UserTemplate == "{{avatar.$thumbnail}} {{first_name}} {{last_name}}"
RoleTemplate == "{{name}}"

\* ------------------------------------------------------------ the inputs

CollectionName == "articles"
Names == {"owner"}                            \* names fields are declared with
Refs == Names \cup {"nonexistent_field"}      \* names sort/archive/relation refer to
Flags == {Omitted, Given(TRUE), Given(FALSE)}
Stamps == {Omitted, Given(TRUE)}
Accountabilities == {"all", "activity", Null}
ArchiveValues == {Omitted, Given(Null), Given("deleted")}
Filters == {Omitted, Given(FALSE)}
Languages == {"en"}
Labels == {"English"}
Singulars == {Omitted, Given("item")}
Plurals == {Omitted, Given("items")}
Related == {Omitted, Given(Null), Given("authors")}
KeyTypes == {"integer", "uuid", "string"}
OnCreate == {Omitted, Given(Null), Given("uuid"), Given("user"), Given("role")}
OnUpdate == {Omitted, Given(Null), Given("user"), Given("role")}
Lengths == {Omitted, Given(64)}
FieldSchemas == {Omitted, Given([primary_key |-> TRUE])}
Templates == {Omitted}
FieldTypes == {"string"}
Precisions == {Omitted}
Scales == {Omitted}

\* ------------------------------------- the Field object (./field, by spec)

Field(fname, type, fschema, fmeta) ==
    [name |-> fname, type |-> type,
     schema |-> Default(fschema, EmptyObj), meta |-> Default(fmeta, EmptyObj)]

notNullable(f) == [f EXCEPT !.schema = Set(@, "nullable", FALSE)]
pk(f) == [f EXCEPT !.schema = Set(@, "primary_key", TRUE)]
autoincrement(f) == [f EXCEPT !.schema = Set(@, "autoincrement", TRUE)]

special(f, kinds) ==
    [f EXCEPT !.meta =
        Set(@, "special", (IF Has(@, "special") THEN @.special ELSE <<>>) \o kinds)]

interface(f, iname, options) ==
    LET m == Set(f.meta, "interface", iname)
    IN  [f EXCEPT !.meta = IF options = Omitted THEN m ELSE Set(m, "options", options[1])]

display(f, dname, options) ==
    LET m == Set(f.meta, "display", dname)
    IN  [f EXCEPT !.meta =
            IF options = Omitted THEN m ELSE Set(m, "display_options", options[1])]

FieldRender(f) == [field |-> f.name, type |-> f.type, schema |-> f.schema, meta |-> f.meta]

\* ------------------------------------ the registry (./builder, by spec)

BuilderRelation(rels, collection, fname, related_collection) ==
    Append(rels, [collection |-> collection, field |-> fname,
                  related_collection |-> related_collection])

\* field.relation(related): registers (owning collection, field, related).
FieldRelation(rels, collection, f, related_collection) ==
    BuilderRelation(rels, collection, f.name, related_collection)

\* .on_delete(policy) on the relation just registered.
on_delete(rels, policy) ==
    [rels EXCEPT ![Len(rels)] = Set(@, "on_delete", policy)]

\* -------------------------------------------------- Collection, pure parts

Constructor(cname, cschema, cmeta, cfields) ==
    [name |-> cname,
     schema |-> Default(cschema, EmptyObj),
     meta |-> Default(cmeta, EmptyObj),
     fields |-> Default(cfields, <<>>)]

findField(fs, fname) ==
    LET hits == {i \in 1..Len(fs) : fs[i].name = fname}
    IN  IF hits = {} THEN Omitted
        ELSE Given(fs[CHOOSE i \in hits : \A j \in hits : i <= j])

date_special(f, on_create, on_updated) ==
    LET s1 == IF on_create THEN <<"date-created">> ELSE <<>>
        s2 == IF on_updated THEN s1 \o <<"date-updated">> ELSE s1
    IN  IF Len(s2) # 0 THEN special(f, s2) ELSE f

\* render() that skips the last field (an off-by-one in the map).
render_drop_last ==
    [collection |-> name,
     schema |-> schema,
     meta |-> meta,
     fields |-> [i \in 1..(IF Len(fields) = 0 THEN 0 ELSE Len(fields) - 1) |->
                    FieldRender(fields[i])]]

render ==
    [collection |-> name,
     schema |-> schema,
     meta |-> meta,
     fields |-> [i \in 1..Len(fields) |-> FieldRender(fields[i])]]

\* ------------------------------------------------------------------- Init

Init ==
    LET c == Constructor(CollectionName, Omitted, Omitted, Omitted)
    IN  /\ name = c.name
        /\ schema = c.schema
        /\ meta = c.meta
        /\ fields = c.fields
        /\ relations = <<>>
        /\ result = <<>>
        /\ declared = <<>>
        /\ translated = <<>>
        /\ archived = <<>>
        /\ ncalls = 0

\* ------------------------------------------------ Collection, meta writes

hidden_meta(m, value) == Set(m, "hidden", Default(value, TRUE))

singleton_meta(m, value) == Set(m, "singleton", Default(value, TRUE))

\* sort() that records the field only when findField knows it.
sort_meta_checked(m, fs, fname) ==
    IF findField(fs, fname) = Omitted THEN m ELSE Set(m, "sort_field", fname)

sort_meta(m, fs, fname) == Set(m, "sort_field", fname)

\* archive() whose defaults replace every falsy argument (value || default).
archive_meta_falsy_default(m, fs, fname, archive_value, unarchive_value, filter) ==
    LET or(arg, d) == IF arg = Omitted \/ arg[1] = Null THEN d ELSE arg[1]
        m1 == Set(m, "archive_field", fname)
        m2 == Set(m1, "archive_value", or(archive_value, DefaultArchiveValue))
        m3 == Set(m2, "unarchive_value", or(unarchive_value, DefaultUnarchiveValue))
    IN  Set(m3, "archive_app_filter", Default(filter, TRUE))

archive_meta(m, fs, fname, archive_value, unarchive_value, filter) ==
    LET m1 == Set(m, "archive_field", fname)
        m2 == Set(m1, "archive_value", Default(archive_value, DefaultArchiveValue))
        m3 == Set(m2, "unarchive_value", Default(unarchive_value, DefaultUnarchiveValue))
    IN  Set(m3, "archive_app_filter", Default(filter, TRUE))

accountability_meta(m, value) == Set(m, "accountability", value)

\* translation() without the Array.isArray guard: the array is reset on every call.
translation_meta_reset(m, language, label, singular, plural) ==
    Set(m, "translations",
        <<[language |-> language, translation |-> label,
           singular |-> Optional(singular), plural |-> Optional(plural)]>>)

translation_meta(m, language, label, singular, plural) ==
    LET m1 == IF ~Has(m, "translations") THEN Set(m, "translations", <<>>) ELSE m
    IN  Set(m1, "translations",
            Append(m1.translations,
                   [language |-> language, translation |-> label,
                    singular |-> Optional(singular), plural |-> Optional(plural)]))

\* ------------------------------------------- Collection, the fields built

\* primary_key() that forgets .pk().
primary_key_field_unflagged(fname, type) ==
    LET f == notNullable(Field(fname, type, Omitted, Omitted))
    IN  IF type = "integer" THEN autoincrement(f)
        ELSE IF type = "uuid" THEN special(f, <<"uuid">>)
        ELSE f

\* primary_key() whose integer branch is taken for every type but uuid.
primary_key_field_autoincrement(fname, type) ==
    LET f == pk(notNullable(Field(fname, type, Omitted, Omitted)))
    IN  IF type = "uuid" THEN special(f, <<"uuid">>) ELSE autoincrement(f)

primary_key_field(fname, type) ==
    LET f == pk(notNullable(Field(fname, type, Omitted, Omitted)))
    IN  IF type = "integer" THEN autoincrement(f)
        ELSE IF type = "uuid" THEN special(f, <<"uuid">>)
        ELSE f

\* uuid() that pushes the update tag before the create tag.
uuid_special_update_first(on_create, on_update) ==
    LET create == [uuid |-> "uuid", user |-> "user-created", role |-> "role-created"]
        update == [user |-> "user-updated", role |-> "role-updated"]
        s1 == IF Truthy(on_update) THEN <<update[on_update]>> ELSE <<>>
    IN  IF Truthy(on_create) THEN s1 \o <<create[on_create]>> ELSE s1

uuid_special(on_create, on_update) ==
    LET create == [uuid |-> "uuid", user |-> "user-created", role |-> "role-created"]
        update == [user |-> "user-updated", role |-> "role-updated"]
        s1 == IF Truthy(on_create) THEN <<create[on_create]>> ELSE <<>>
    IN  IF Truthy(on_update) THEN s1 \o <<update[on_update]>> ELSE s1

uuid_field(fname, on_create, on_update) ==
    LET f == Field(fname, "uuid", Omitted, Omitted)
        s == uuid_special(Default(on_create, Null), Default(on_update, Null))
    IN  IF Len(s) # 0 THEN special(f, s) ELSE f

user_created_field(fname, template) ==
    LET t == Default(template, UserTemplate)
    IN  display(interface(uuid_field(fname, Given("user"), Omitted),
                          "select-dropdown-m2o", Given([template |-> t])),
                "user", Omitted)

role_created_field(fname, template) ==
    LET t == Default(template, RoleTemplate)
    IN  display(interface(uuid_field(fname, Given("role"), Omitted),
                          "select-dropdown-m2o", Given([template |-> t])),
                "related-values", Given([template |-> t]))

\* user_updated() that passes "user" as on_create, as user_created does.
user_updated_field_on_create(fname, template) ==
    LET t == Default(template, UserTemplate)
    IN  display(interface(uuid_field(fname, Given("user"), Omitted),
                          "select-dropdown-m2o", Given([template |-> t])),
                "user", Omitted)

user_updated_field(fname, template) ==
    LET t == Default(template, UserTemplate)
    IN  display(interface(uuid_field(fname, Given(Null), Given("user")),
                          "select-dropdown-m2o", Given([template |-> t])),
                "user", Omitted)

role_updated_field(fname, template) ==
    LET t == Default(template, RoleTemplate)
    IN  display(interface(uuid_field(fname, Given(Null), Given("role")),
                          "select-dropdown-m2o", Given([template |-> t])),
                "related-values", Given([template |-> t]))

date_field(fname, type, on_create, on_updated) ==
    date_special(Field(fname, type, Omitted, Omitted),
                 Default(on_create, FALSE), Default(on_updated, FALSE))

date_created_field(fname) ==
    display(interface(date_field(fname, "timestamp", Given(TRUE), Omitted),
                      "datetime", Omitted),
            "datetime", Given([relative |-> TRUE]))

date_updated_field(fname) ==
    display(interface(date_field(fname, "timestamp", Given(FALSE), Given(TRUE)),
                      "datetime", Omitted),
            "datetime", Given([relative |-> TRUE]))

file_field(fname) ==
    display(interface(special(Field(fname, "uuid", Omitted, Omitted), <<"file">>),
                      "file", Omitted),
            "file", Omitted)

\* image() that tags the field "image" instead of "file".
image_field_tagged_image(fname) ==
    display(interface(special(Field(fname, "uuid", Omitted, Omitted), <<"image">>),
                      "file-image", Omitted),
            "image", Omitted)

image_field(fname) ==
    display(interface(special(Field(fname, "uuid", Omitted, Omitted), <<"file">>),
                      "file-image", Omitted),
            "image", Omitted)

\* field.relation(related).on_delete("SET NULL"), as the stamp and file helpers do.
set_null_relation(rels, f, related_collection) ==
    on_delete(FieldRelation(rels, name, f, related_collection), "SET NULL")

\* ---------------------------------------------------------------- actions

\* A mutating call that only writes this.meta.
SetMeta(m) ==
    /\ ncalls < MaxCalls
    /\ ncalls' = ncalls + 1
    /\ meta' = m
    /\ result' = <<>>
    /\ UNCHANGED <<name, schema, fields, relations, declared, translated>>

\* field() that puts the new field first (unshift for push).
Declare_unshift(f, rels, op, args) ==
    /\ ncalls < MaxCalls
    /\ ncalls' = ncalls + 1
    /\ fields' = <<f>> \o fields
    /\ relations' = rels
    /\ declared' = Append(declared,
                           [op |-> op, name |-> f.name, args |-> args, made |-> f,
                            relAt |-> Len(relations), relN |-> Len(rels) - Len(relations)])
    /\ result' = <<>>
    /\ UNCHANGED <<name, schema, meta, translated, archived>>

\* this.fields.push(field), with the relation log the helper leaves behind.
Declare(f, rels, op, args) ==
    /\ ncalls < MaxCalls
    /\ ncalls' = ncalls + 1
    /\ fields' = Append(fields, f)
    /\ relations' = rels
    /\ declared' = Append(declared,
                           [op |-> op, name |-> f.name, args |-> args, made |-> f,
                            relAt |-> Len(relations), relN |-> Len(rels) - Len(relations)])
    /\ result' = <<>>
    /\ UNCHANGED <<name, schema, meta, translated, archived>>

hidden(value) == SetMeta(hidden_meta(meta, value)) /\ UNCHANGED archived

singleton(value) == SetMeta(singleton_meta(meta, value)) /\ UNCHANGED archived

sort(fname) == SetMeta(sort_meta(meta, fields, fname)) /\ UNCHANGED archived

archive(fname, archive_value, unarchive_value, filter) ==
    /\ SetMeta(archive_meta(meta, fields, fname, archive_value, unarchive_value, filter))
    /\ archived' = <<fname, archive_value, unarchive_value, filter>>

accountability(value) == SetMeta(accountability_meta(meta, value)) /\ UNCHANGED archived

translation(language, label, singular, plural) ==
    /\ ncalls < MaxCalls
    /\ ncalls' = ncalls + 1
    /\ meta' = translation_meta(meta, language, label, singular, plural)
    /\ translated' = Append(translated, <<language, label, singular, plural>>)
    /\ result' = <<>>
    /\ UNCHANGED <<name, schema, fields, relations, declared, archived>>

relation(fname, related_collection) ==
    /\ ncalls < MaxCalls
    /\ ncalls' = ncalls + 1
    /\ relations' = BuilderRelation(relations, name, fname, Default(related_collection, Null))
    /\ result' = <<>>
    /\ UNCHANGED <<name, schema, meta, fields, declared, translated, archived>>

field(fname, type, fschema, fmeta) ==
    Declare(Field(fname, type, fschema, fmeta), relations, "field", <<type, fschema, fmeta>>)

primary_key(fname, type) ==
    Declare(primary_key_field(fname, type), relations, "primary_key", <<type>>)

user_created(fname, template) ==
    LET f == user_created_field(fname, template)
    IN  Declare(f, set_null_relation(relations, f, "directus_users"), "user_created", <<template>>)

role_created(fname, template) ==
    LET f == role_created_field(fname, template)
    IN  Declare(f, set_null_relation(relations, f, "directus_roles"), "role_created", <<template>>)

user_updated(fname, template) ==
    LET f == user_updated_field(fname, template)
    IN  Declare(f, set_null_relation(relations, f, "directus_users"), "user_updated", <<template>>)

role_updated(fname, template) ==
    LET f == role_updated_field(fname, template)
    IN  Declare(f, set_null_relation(relations, f, "directus_roles"), "role_updated", <<template>>)

date_created(fname) == Declare(date_created_field(fname), relations, "date_created", <<>>)

date_updated(fname) == Declare(date_updated_field(fname), relations, "date_updated", <<>>)

string(fname, max_length) ==
    Declare(Field(fname, "string",
                  Given([max_length |-> Default(max_length, DefaultMaxLength)]), Omitted),
            relations, "string", <<max_length>>)

text(fname) == Declare(Field(fname, "text", Omitted, Omitted), relations, "text", <<>>)

boolean(fname) ==
    Declare(special(Field(fname, "boolean", Omitted, Omitted), <<"boolean">>),
            relations, "boolean", <<>>)

integer(fname, precision) ==
    Declare(Field(fname, "integer",
                  Given([numeric_precision |-> Default(precision, DefaultIntegerPrecision)]),
                  Omitted),
            relations, "integer", <<precision>>)

bigInteger(fname, precision) ==
    Declare(Field(fname, "bigInteger",
                  Given([numeric_precision |-> Default(precision, DefaultBigIntegerPrecision)]),
                  Omitted),
            relations, "bigInteger", <<precision>>)

float(fname, precision, scale) ==
    Declare(Field(fname, "float",
                  Given([numeric_precision |-> Default(precision, DefaultPrecision),
                         numeric_scale |-> Default(scale, DefaultScale)]),
                  Omitted),
            relations, "float", <<precision, scale>>)

decimal(fname, precision, scale) ==
    Declare(Field(fname, "decimal",
                  Given([numeric_precision |-> Default(precision, DefaultPrecision),
                         numeric_scale |-> Default(scale, DefaultScale)]),
                  Omitted),
            relations, "decimal", <<precision, scale>>)

datetime(fname, on_create, on_updated) ==
    Declare(date_field(fname, "datetime", on_create, on_updated),
            relations, "datetime", <<on_create, on_updated>>)

timestamp(fname, on_create, on_updated) ==
    Declare(date_field(fname, "timestamp", on_create, on_updated),
            relations, "timestamp", <<on_create, on_updated>>)

date(fname, on_create, on_updated) ==
    Declare(date_field(fname, "date", on_create, on_updated),
            relations, "date", <<on_create, on_updated>>)

time(fname, on_create, on_updated) ==
    Declare(date_field(fname, "time", on_create, on_updated),
            relations, "time", <<on_create, on_updated>>)

json(fname) ==
    Declare(special(Field(fname, "json", Omitted, Omitted), <<"json">>), relations, "json", <<>>)

csv(fname) ==
    Declare(special(Field(fname, "csv", Omitted, Omitted), <<"csv">>), relations, "csv", <<>>)

uuid(fname, on_create, on_update) ==
    Declare(uuid_field(fname, on_create, on_update), relations, "uuid", <<on_create, on_update>>)

hash(fname) ==
    Declare(special(Field(fname, "hash", Omitted, Omitted), <<"hash">>), relations, "hash", <<>>)

geometryPoint(fname) ==
    Declare(Field(fname, "geometry.Point", Omitted, Omitted), relations, "geometryPoint", <<>>)

geometryLineString(fname) ==
    Declare(Field(fname, "geometry.LineString", Omitted, Omitted),
            relations, "geometryLineString", <<>>)

geometryPolygon(fname) ==
    Declare(Field(fname, "geometry.Polygon", Omitted, Omitted), relations, "geometryPolygon", <<>>)

geometryMultiPoint(fname) ==
    Declare(Field(fname, "geometry.MultiPoint", Omitted, Omitted),
            relations, "geometryMultiPoint", <<>>)

geometryMultiLineString(fname) ==
    Declare(Field(fname, "geometry.MultiLineString", Omitted, Omitted),
            relations, "geometryMultiLineString", <<>>)

geometryMultiPolygon(fname) ==
    Declare(Field(fname, "geometry.MultiPolygon", Omitted, Omitted),
            relations, "geometryMultiPolygon", <<>>)

file(fname) ==
    LET f == file_field(fname)
    IN  Declare(f, set_null_relation(relations, f, "directus_files"), "file", <<>>)

image(fname) ==
    LET f == image_field(fname)
    IN  Declare(f, set_null_relation(relations, f, "directus_files"), "image", <<>>)

render_call ==
    /\ result' = Given(render)
    /\ UNCHANGED <<name, schema, meta, fields, relations, declared, translated, archived, ncalls>>

Next ==
    \/ \E n \in Names, t \in KeyTypes : primary_key(n, t)
    \/ \E v \in Flags : hidden(v)
    \/ \E v \in Flags : singleton(v)
    \/ \E f \in Refs : sort(f)
    \/ \E f \in Refs, a \in ArchiveValues, u \in ArchiveValues, p \in Filters : archive(f, a, u, p)
    \/ \E v \in Accountabilities : accountability(v)
    \/ \E l \in Languages, t \in Labels, s \in Singulars, p \in Plurals : translation(l, t, s, p)
    \/ \E f \in Refs, r \in Related : relation(f, r)
    \/ \E n \in Names, t \in FieldTypes, s \in FieldSchemas : field(n, t, s, Omitted)
    \/ \E n \in Names, t \in Templates : user_created(n, t)
    \/ \E n \in Names, t \in Templates : role_created(n, t)
    \/ \E n \in Names, t \in Templates : user_updated(n, t)
    \/ \E n \in Names, t \in Templates : role_updated(n, t)
    \/ \E n \in Names : date_created(n)
    \/ \E n \in Names : date_updated(n)
    \/ \E n \in Names, l \in Lengths : string(n, l)
    \/ \E n \in Names : text(n)
    \/ \E n \in Names : boolean(n)
    \/ \E n \in Names, p \in Precisions : integer(n, p)
    \/ \E n \in Names, p \in Precisions : bigInteger(n, p)
    \/ \E n \in Names, p \in Precisions, s \in Scales : float(n, p, s)
    \/ \E n \in Names, p \in Precisions, s \in Scales : decimal(n, p, s)
    \/ \E n \in Names, c \in Stamps, u \in Stamps : datetime(n, c, u)
    \/ \E n \in Names, c \in Stamps, u \in Stamps : timestamp(n, c, u)
    \/ \E n \in Names, c \in Stamps, u \in Stamps : date(n, c, u)
    \/ \E n \in Names, c \in Stamps, u \in Stamps : time(n, c, u)
    \/ \E n \in Names : json(n)
    \/ \E n \in Names : csv(n)
    \/ \E n \in Names, c \in OnCreate, u \in OnUpdate : uuid(n, c, u)
    \/ \E n \in Names : hash(n)
    \/ \E n \in Names : geometryPoint(n)
    \/ \E n \in Names : geometryLineString(n)
    \/ \E n \in Names : geometryPolygon(n)
    \/ \E n \in Names : geometryMultiPoint(n)
    \/ \E n \in Names : geometryMultiLineString(n)
    \/ \E n \in Names : geometryMultiPolygon(n)
    \/ \E n \in Names : file(n)
    \/ \E n \in Names : image(n)
    \/ render_call

Spec == Init /\ [][Next]_vars

\* ------------------------------------------------------ helper predicates

\* <<o[k]>> when o has the key k, <<>> when it has not.
Get(o, k) == IF Has(o, k) THEN <<o[k]>> ELSE <<>>
Specials(f) == IF Has(f.meta, "special") THEN f.meta.special ELSE <<>>
IsPrimaryKey(f) == Get(f.schema, "primary_key") = <<TRUE>>
DeclaredBy(ops) == {i \in 1..Len(declared) : declared[i].op \in ops}
\* The field the i-th field-declaring call appended, where the collection holds it now.
FieldOf(i) == IF i <= Len(fields) THEN <<fields[i]>> ELSE <<>>
\* The relations the i-th field-declaring call registered, as the log holds them now.
RegisteredBy(i) ==
    LET d == declared[i]
    IN  IF d.relAt + d.relN <= Len(relations)
        THEN SubSeq(relations, d.relAt + 1, d.relAt + d.relN) ELSE <<>>
SetNullRelation(fname, related_collection) ==
    [collection |-> name, field |-> fname,
     related_collection |-> related_collection, on_delete |-> "SET NULL"]
ArgGiven(arg) == arg # Omitted /\ arg[1] # Null

\* ----------------------------------------------------------------- claims

\* C1: the collection holds exactly the fields the field-declaring calls made, one
\* per call and in call order, whatever metadata and render calls came between:
\* the i-th field is the one the i-th call built, unchanged since, and a render()
\* returns their renderings in that order.
C1_FieldsInCallOrder ==
    /\ Len(fields) = Len(declared)
    /\ \A i \in 1..Len(declared) : FieldOf(i) = <<declared[i].made>>
    /\ result # <<>> =>
        /\ Len(result[1].fields) = Len(declared)
        /\ \A i \in 1..Len(declared) :
              i <= Len(result[1].fields)
              /\ result[1].fields[i] = FieldRender(declared[i].made)

C1_Witness ==
    /\ result # <<>>
    /\ Len(result[1].fields) = 2
    /\ declared[1].op = "file"
    /\ declared[2].op = "primary_key"
    /\ result[1].fields[1].meta # result[1].fields[2].meta

\* C2: render() is a pure function of the current state: what it returns is
\* {collection: name, schema, meta, fields: the rendering of each field in order}
\* of the state it is called in, it leaves name, schema, meta, fields and the
\* registered relations unchanged, and a second render() with no mutating call
\* between returns an output equal to the first.
C2_RenderPure ==
    /\ [](result # <<>> =>
            /\ DOMAIN result[1] = {"collection", "schema", "meta", "fields"}
            /\ result[1].collection = name
            /\ result[1].schema = schema
            /\ result[1].meta = meta
            /\ Len(result[1].fields) = Len(fields)
            /\ \A i \in 1..Len(fields) :
                  i <= Len(result[1].fields)
                  /\ result[1].fields[i] =
                       [field |-> fields[i].name, type |-> fields[i].type,
                        schema |-> fields[i].schema, meta |-> fields[i].meta])
    /\ [][render_call => UNCHANGED <<name, schema, meta, fields, relations>>]_vars
    /\ [][(render_call /\ result # <<>>) => result' = result]_vars

C2_Witness ==
    /\ result # <<>>
    /\ ncalls = 2
    /\ Len(result[1].fields) = 1
    /\ Get(result[1].meta, "hidden") = <<FALSE>>

\* C3 as claimed: at most one field of the collection is marked as primary key in
\* every reachable state.
C3_AtMostOnePrimaryKey ==
    Cardinality({i \in 1..Len(fields) : IsPrimaryKey(fields[i])}) <= 1

\* C3 as amended: the fields marked as primary key are exactly those declared by a
\* primary_key call or by a field call whose schema argument sets primary_key, one
\* per such call: nothing rejects a second one or unmarks the first.
C3_PrimaryKeysAsDeclared ==
    {i \in 1..Len(fields) : IsPrimaryKey(fields[i])} =
        {i \in 1..Len(declared) :
            \/ declared[i].op = "primary_key"
            \/ /\ declared[i].op = "field"
               /\ declared[i].args[2] # Omitted
               /\ Get(declared[i].args[2][1], "primary_key") = <<TRUE>>}

C3_Witness ==
    /\ Len(declared) = 2
    /\ declared[1].op = "primary_key"
    /\ declared[2].op = "primary_key"
    /\ IsPrimaryKey(fields[1])
    /\ IsPrimaryKey(fields[2])

C4_CreateTag(on_create) ==
    IF ~ArgGiven(on_create) THEN <<>>
    ELSE IF on_create[1] = "uuid" THEN <<"uuid">>
    ELSE IF on_create[1] = "user" THEN <<"user-created">>
    ELSE <<"role-created">>

C4_UpdateTag(on_update) ==
    IF ~ArgGiven(on_update) THEN <<>>
    ELSE IF on_update[1] = "user" THEN <<"user-updated">>
    ELSE <<"role-updated">>

\* C4: uuid(name, on_create, on_update) appends one field of type "uuid" whose
\* special tags are the create tag (if on_create is given) followed by the update
\* tag (if on_update is given), and which has no special key when neither is given.
C4_UuidSpecialTags ==
    \A i \in DeclaredBy({"uuid"}) :
        LET tags == C4_CreateTag(declared[i].args[1]) \o C4_UpdateTag(declared[i].args[2])
        IN  /\ FieldOf(i) # <<>>
            /\ fields[i].name = declared[i].name
            /\ fields[i].type = "uuid"
            /\ Get(fields[i].meta, "special") = (IF tags = <<>> THEN <<>> ELSE <<tags>>)

C4_Witness ==
    \E i \in DeclaredBy({"uuid"}), j \in DeclaredBy({"uuid"}) :
        /\ declared[i].args = <<Given("user"), Given("role")>>
        /\ Specials(fields[i]) = <<"user-created", "role-updated">>
        /\ declared[j].args = <<Omitted, Omitted>>
        /\ ~Has(fields[j].meta, "special")

\* C5: primary_key(name, type) appends one field of the given type that is not
\* nullable and carries the primary-key flag; integer adds autoincrement and no
\* special tag, uuid adds the special tag "uuid" and no autoincrement flag, string
\* adds neither.
C5_PrimaryKeyShape ==
    \A i \in DeclaredBy({"primary_key"}) :
        LET type == declared[i].args[1]
        IN  /\ FieldOf(i) # <<>>
            /\ fields[i].name = declared[i].name
            /\ fields[i].type = type
            /\ Get(fields[i].schema, "nullable") = <<FALSE>>
            /\ Get(fields[i].schema, "primary_key") = <<TRUE>>
            /\ Get(fields[i].schema, "autoincrement") =
                 (IF type = "integer" THEN <<TRUE>> ELSE <<>>)
            /\ Get(fields[i].meta, "special") =
                 (IF type = "uuid" THEN <<(<<"uuid">>)>> ELSE <<>>)

C5_Witness ==
    /\ Len(declared) = 2
    /\ declared[1].op = "primary_key" /\ declared[1].args = <<"integer">>
    /\ declared[2].op = "primary_key" /\ declared[2].args = <<"string">>
    /\ Get(fields[1].schema, "autoincrement") = <<TRUE>>
    /\ ~Has(fields[2].schema, "autoincrement")

C6_Tag(op) ==
    IF op = "user_created" THEN "user-created"
    ELSE IF op = "role_created" THEN "role-created"
    ELSE IF op = "user_updated" THEN "user-updated"
    ELSE "role-updated"

C6_Related(op) ==
    IF op \in {"user_created", "user_updated"} THEN "directus_users" ELSE "directus_roles"

\* C6: user_created, role_created, user_updated and role_updated each append one
\* uuid field whose special tags are exactly ["user-created"], ["role-created"],
\* ["user-updated"], ["role-updated"], and each registers exactly one relation
\* from (this collection, that field) to directus_users (user_*) or directus_roles
\* (role_*) with delete policy SET NULL.
C6_StampHelpers ==
    /\ Len(fields) = Len(declared)
    /\ \A i \in DeclaredBy({"user_created", "role_created", "user_updated", "role_updated"}) :
          /\ FieldOf(i) # <<>>
          /\ fields[i].name = declared[i].name
          /\ fields[i].type = "uuid"
          /\ Get(fields[i].meta, "special") = <<(<<C6_Tag(declared[i].op)>>)>>
          /\ declared[i].relN = 1
          /\ RegisteredBy(i) =
               <<SetNullRelation(declared[i].name, C6_Related(declared[i].op))>>

C6_Witness ==
    /\ Len(declared) = 2
    /\ declared[1].op = "user_updated"
    /\ declared[2].op = "role_created"
    /\ Specials(fields[1]) = <<"user-updated">>
    /\ Specials(fields[2]) = <<"role-created">>
    /\ Len(relations) = 2
    /\ relations[1].related_collection = "directus_users"
    /\ relations[2].related_collection = "directus_roles"

\* The object o without the keys ks.
Without(o, ks) == [k \in DOMAIN o \ ks |-> o[k]]

\* A field without the two keys file() and image() may differ in.
C7_Stripped(f) == [f EXCEPT !.meta = Without(@, {"interface", "display"})]

\* C7: file(name) and image(name) each append one uuid field whose special tags are
\* exactly ["file"] and register one relation from (this collection, that field)
\* to directus_files with delete policy SET NULL; a file field and an image field
\* of the same name, and their registrations, are equal in everything except the
\* interface name (file, file-image) and the display name (file, image).
C7_FileAndImage ==
    /\ \A i \in DeclaredBy({"file", "image"}) :
          /\ FieldOf(i) # <<>>
          /\ fields[i].name = declared[i].name
          /\ fields[i].type = "uuid"
          /\ Get(fields[i].meta, "special") = <<(<<"file">>)>>
          /\ Get(fields[i].meta, "interface") =
               (IF declared[i].op = "file" THEN <<"file">> ELSE <<"file-image">>)
          /\ Get(fields[i].meta, "display") =
               (IF declared[i].op = "file" THEN <<"file">> ELSE <<"image">>)
          /\ declared[i].relN = 1
          /\ RegisteredBy(i) = <<SetNullRelation(declared[i].name, "directus_files")>>
    /\ \A i \in DeclaredBy({"file"}), j \in DeclaredBy({"image"}) :
          (FieldOf(i) # <<>> /\ FieldOf(j) # <<>> /\ declared[i].name = declared[j].name) =>
              /\ C7_Stripped(fields[i]) = C7_Stripped(fields[j])
              /\ RegisteredBy(i) = RegisteredBy(j)

C7_Witness ==
    /\ Len(declared) = 2
    /\ declared[1].op = "file"
    /\ declared[2].op = "image"
    /\ fields[1] # fields[2]
    /\ Len(relations) = 2
    /\ relations[1] = relations[2]

C8_ArchiveKeys == {"archive_field", "archive_value", "unarchive_value", "archive_app_filter"}

\* C8: meta.archive_field, archive_value, unarchive_value and archive_app_filter
\* are absent until archive is first called; after that they hold the arguments
\* of the last archive call, an omitted argument standing for "archived", "draft"
\* and true, and an explicit null stored as null.
C8_ArchiveTriState ==
    IF archived = <<>>
    THEN DOMAIN meta \cap C8_ArchiveKeys = {}
    ELSE /\ Get(meta, "archive_field") = <<archived[1]>>
         /\ Get(meta, "archive_value") =
              (IF archived[2] = Omitted THEN <<"archived">> ELSE archived[2])
         /\ Get(meta, "unarchive_value") =
              (IF archived[3] = Omitted THEN <<"draft">> ELSE archived[3])
         /\ Get(meta, "archive_app_filter") =
              (IF archived[4] = Omitted THEN <<TRUE>> ELSE archived[4])

C8_Witness ==
    /\ ncalls = 2
    /\ archived = <<"owner", Given(Null), Omitted, Omitted>>
    /\ meta.archive_value = Null
    /\ meta.unarchive_value = "draft"
    /\ meta.archive_app_filter = TRUE
    /\ ~Has(meta, "hidden") /\ ~Has(meta, "singleton") /\ ~Has(meta, "sort_field")
    /\ ~Has(meta, "accountability") /\ ~Has(meta, "translations")
    /\ fields = <<>> /\ relations = <<>>

C9_Entry(call) ==
    [language |-> call[1], translation |-> call[2],
     singular |-> IF call[3] = Omitted THEN Undefined ELSE call[3][1],
     plural |-> IF call[4] = Omitted THEN Undefined ELSE call[4][1]]

\* C9: meta.translations is absent until the first translation() call; after n
\* calls it has exactly n entries, in call order and without deduplication, each
\* holding the language and translation given and singular/plural undefined unless
\* supplied; no later call changes an entry.
C9_TranslationsAppendOnly ==
    IF translated = <<>>
    THEN ~Has(meta, "translations")
    ELSE /\ Has(meta, "translations")
         /\ Len(meta.translations) = Len(translated)
         /\ \A i \in 1..Len(translated) :
               i <= Len(meta.translations)
               /\ meta.translations[i] = C9_Entry(translated[i])

C9_Witness ==
    /\ Len(translated) = 2
    /\ translated[1] = translated[2]
    /\ translated[1][3] = Omitted
    /\ Len(meta.translations) = 2
    /\ meta.translations[1] = meta.translations[2]
    /\ meta.translations[1].singular = Undefined

C10_WellFormed(d) ==
    /\ DOMAIN d = {"collection", "schema", "meta", "fields"}
    /\ d.collection = CollectionName
    /\ DOMAIN d.fields = 1..Len(d.fields)
    /\ \A i \in 1..Len(d.fields) : DOMAIN d.fields[i] = {"field", "type", "schema", "meta"}

\* C10: sort(f) and archive(f) validate nothing: while the model lets a call be
\* made, for every name f, declared as a field or not, sort(f) and archive(f) can
\* be taken, record f as meta.sort_field / meta.archive_field, leave the fields
\* and the registered relations unchanged, and the render() of the state they
\* lead to is a well-formed {collection, schema, meta, fields} descriptor.
C10_NoCrossReferenceCheck ==
    ncalls < MaxCalls =>
        \A f \in Refs :
            /\ ENABLED (/\ sort(f)
                        /\ Get(meta', "sort_field") = <<f>>
                        /\ fields' = fields
                        /\ relations' = relations
                        /\ C10_WellFormed(render)')
            /\ \A a \in ArchiveValues, u \in ArchiveValues, p \in Filters :
                  ENABLED (/\ archive(f, a, u, p)
                           /\ Get(meta', "archive_field") = <<f>>
                           /\ fields' = fields
                           /\ relations' = relations
                           /\ C10_WellFormed(render)')

C10_Witness ==
    /\ result # <<>>
    /\ Len(fields) = 1
    /\ Get(meta, "sort_field") = <<"nonexistent_field">>
    /\ findField(fields, "nonexistent_field") = Omitted
    /\ findField(fields, "owner") # Omitted
    /\ Get(result[1].meta, "sort_field") = <<"nonexistent_field">>

====
